---------------------------- MODULE Spec2Model ----------------------------
(***************************************************************************)
(* Model of the plate-impact analysis code.                                *)
(*                                                                         *)
(*   wagner_pressure   (MATLAB function, composite Wagner pressure)        *)
(*   force_comparison  (MATLAB script, stationary-plate Wagner baseline)   *)
(*                                                                         *)
(* MATLAB doubles are modelled as fixed-point numbers with four decimal    *)
(* digits (raw integer = value * Scale).  A MATLAB value is a record       *)
(* [k, re, im]: k = "fin" is a finite complex number re + i*im, and        *)
(* k = "pinf" / "ninf" / "nan" are +Inf, -Inf and NaN.                     *)
(***************************************************************************)
EXTENDS Integers, Sequences, FiniteSets, TLC

(***************************************************************************)
(* Fixed-point arithmetic on raw integers                                  *)
(***************************************************************************)
Scale == 100 * 100

Abs(x) == IF x < 0 THEN -x ELSE x

Sgn(x) == IF x < 0 THEN -1 ELSE IF x > 0 THEN 1 ELSE 0

\* a * b, rounded to the nearest raw unit
MulI(a, b) ==
  LET x  == Abs(a)
      y  == Abs(b)
      qa == x \div Scale
      ra == x % Scale
      qb == y \div Scale
      rb == y % Scale
      m  == qa * qb * Scale + qa * rb + ra * qb + (ra * rb + Scale \div 2) \div Scale
  IN  IF (a < 0) # (b < 0) THEN -m ELSE m

RECURSIVE DivDigits(_, _, _)
DivDigits(r, y, n) ==
  IF n = 0 THEN (IF 2 * r >= y THEN 1 ELSE 0)
  ELSE LET r10 == r * 10
       IN  (r10 \div y) * (10 ^ (n - 1)) + DivDigits(r10 % y, y, n - 1)

\* a / b for b # 0, by long division (four decimal digits, last one rounded)
DivI(a, b) ==
  LET x == Abs(a)
      y == Abs(b)
      m == (x \div y) * Scale + DivDigits(x % y, y, 4)
  IN  IF (a < 0) # (b < 0) THEN -m ELSE m

RECURSIVE ISqrtBits(_, _, _)
ISqrtBits(n, r, b) ==
  IF b < 0 THEN r
  ELSE LET c == r + 2 ^ b
       IN  IF c <= 46340 /\ c * c <= n THEN ISqrtBits(n, c, b - 1)
           ELSE ISqrtBits(n, r, b - 1)

\* floor of the integer square root
ISqrt(n) == ISqrtBits(n, 0, 15)

\* sqrt(x) for a raw x >= 0
SqrtI(x) ==
  IF x <= 200000 THEN ISqrt(x * Scale) ELSE ISqrt(x) * 100

RECURSIVE LnNorm(_, _)
\* <<m, k>> with x = m * 2^k (approximately) and Scale <= m < 2 * Scale
LnNorm(x, k) ==
  IF x >= 2 * Scale THEN LnNorm(x \div 2, k + 1)
  ELSE IF x < Scale THEN LnNorm(x * 2, k - 1)
  ELSE <<x, k>>

\* ln(x) for a raw x > 0: ln(m 2^k) = k ln 2 + 2 atanh((m - 1)/(m + 1))
LnI(x) ==
  LET mk == LnNorm(x, 0)
      m  == mk[1]
      k  == mk[2]
      z  == DivI(m - Scale, m + Scale)
      z2 == MulI(z, z)
      z3 == MulI(z, z2)
      z5 == MulI(z3, z2)
      z7 == MulI(z5, z2)
      ser == 2 * z + (2 * z3) \div 3 + (2 * z5) \div 5 + (2 * z7) \div 7
  IN  (k * 693147) \div 100 + ser

(***************************************************************************)
(* MATLAB values: finite complex numbers, +Inf, -Inf, NaN                  *)
(***************************************************************************)
C(x, y) == [k |-> "fin", re |-> x, im |-> y]
R(x)    == C(x, 0)
PInf    == [k |-> "pinf", re |-> 0, im |-> 0]
NInf    == [k |-> "ninf", re |-> 0, im |-> 0]
NaN     == [k |-> "nan", re |-> 0, im |-> 0]

IsFin(a)   == a.k = "fin"
IsZero(a)  == a.k = "fin" /\ a.re = 0 /\ a.im = 0
IsRealV(a) == a.k = "fin" /\ a.im = 0
IsInf(a)   == a.k \in {"pinf", "ninf"}
\* sign of a real value or of an infinity
SignV(a) == IF a.k = "pinf" THEN 1 ELSE IF a.k = "ninf" THEN -1 ELSE Sgn(a.re)
InfOf(sg) == IF sg > 0 THEN PInf ELSE IF sg < 0 THEN NInf ELSE NaN

Neg(a) ==
  CASE a.k = "fin"  -> C(-a.re, -a.im)
    [] a.k = "pinf" -> NInf
    [] a.k = "ninf" -> PInf
    [] OTHER        -> NaN

Add(a, b) ==
  CASE a.k = "nan" \/ b.k = "nan"   -> NaN
    [] a.k = "fin" /\ b.k = "fin"   -> C(a.re + b.re, a.im + b.im)
    [] IsInf(a) /\ IsInf(b)         -> IF a.k = b.k THEN a ELSE NaN
    [] IsInf(a)                     -> IF b.im = 0 THEN a ELSE NaN
    [] OTHER                        -> IF a.im = 0 THEN b ELSE NaN

Sub(a, b) == Add(a, Neg(b))

Mul(a, b) ==
  CASE a.k = "nan" \/ b.k = "nan"   -> NaN
    [] a.k = "fin" /\ b.k = "fin"   ->
         C(MulI(a.re, b.re) - MulI(a.im, b.im), MulI(a.re, b.im) + MulI(a.im, b.re))
    [] IsInf(a) /\ IsInf(b)         -> InfOf(SignV(a) * SignV(b))
    [] IsInf(a)                     -> IF b.im = 0 THEN InfOf(SignV(a) * SignV(b)) ELSE NaN
    [] OTHER                        -> IF a.im = 0 THEN InfOf(SignV(a) * SignV(b)) ELSE NaN

Div(a, b) ==
  CASE a.k = "nan" \/ b.k = "nan"   -> NaN
    [] IsInf(a) /\ IsInf(b)         -> NaN
    [] IsInf(a)                     ->
         IF b.im # 0 THEN NaN
         ELSE IF b.re = 0 THEN a ELSE InfOf(SignV(a) * SignV(b))
    [] IsInf(b)                     -> R(0)
    [] IsZero(b)                    -> IF a.im = 0 THEN InfOf(Sgn(a.re)) ELSE NaN
    [] b.im = 0                     -> C(DivI(a.re, b.re), DivI(a.im, b.re))
    [] b.re = 0                     -> C(DivI(a.im, b.im), -DivI(a.re, b.im))
    [] OTHER                        ->
         LET den == MulI(b.re, b.re) + MulI(b.im, b.im)
             nre == MulI(a.re, b.re) + MulI(a.im, b.im)
             nim == MulI(a.im, b.re) - MulI(a.re, b.im)
         IN  IF den = 0 THEN NaN ELSE C(DivI(nre, den), DivI(nim, den))

\* principal square root: sqrt of a negative real is imaginary
Sqrt(a) ==
  CASE a.k = "nan"  -> NaN
    [] a.k = "pinf" -> PInf
    [] a.k = "ninf" -> NaN
    [] a.im = 0     -> IF a.re >= 0 THEN R(SqrtI(a.re)) ELSE C(0, SqrtI(-a.re))
    [] OTHER        ->
         LET mod == SqrtI(MulI(a.re, a.re) + MulI(a.im, a.im))
             p   == SqrtI((mod + a.re) \div 2)
             q   == SqrtI((mod - a.re) \div 2)
         IN  C(p, IF a.im < 0 THEN -q ELSE q)

\* a .^ (3/2), principal branch: exp(1.5 Log a) = a * sqrt(a)
Pow32(a) == Mul(a, Sqrt(a))

Sq(a) == Mul(a, a)

\* log of a positive real; log(0) = -Inf
Log(a) ==
  CASE a.k = "nan"  -> NaN
    [] a.k = "pinf" -> PInf
    [] a.k = "fin" /\ a.im = 0 /\ a.re > 0 -> R(LnI(a.re))
    [] a.k = "fin" /\ a.im = 0 /\ a.re = 0 -> NInf
    [] OTHER        -> NaN

\* real(a)
Real(a) == IF a.k = "fin" THEN R(a.re) ELSE a

\* mutant of Gt0: the comparison written >= 0
Gt0_NonStrict(a) ==
  CASE a.k = "fin"  -> a.re >= 0
    [] a.k = "pinf" -> TRUE
    [] OTHER        -> FALSE

\* a > 0 as MATLAB evaluates it: the real parts are compared, NaN > 0 is false
Gt0(a) ==
  CASE a.k = "fin"  -> a.re > 0
    [] a.k = "pinf" -> TRUE
    [] OTHER        -> FALSE

(***************************************************************************)
(* wagner_pressure(sigmas, t, s, sdot, sddot, eps)                         *)
(***************************************************************************)
Pi == 31416

Num(n) == R(n * Scale)

Undef == [k |-> "undef", re |-> 0, im |-> 0]

\* mutant of TurnoverD: the factor 3 left out
TurnoverD_NoFactor(t, s) == Sqrt(R(t - s))

\* d = sqrt(3 * (t - s))
TurnoverD(t, s) == Sqrt(Mul(Num(3), R(t - s)))

\* ddot = (sqrt(3)/2) * (1 - sdot) ./ sqrt(t - s)
TurnoverDdot(t, s, sdot) ==
  Div(Mul(Div(Sqrt(Num(3)), Num(2)), R(Scale - sdot)), Sqrt(R(t - s)))

\* dddot = - (sqrt(3)/4) * ((1 - sdot).^2 + 2 * (t - s) .* sddot) ./ (t - s).^(3/2)
TurnoverDddot(t, s, sdot, sddot) ==
  Div(Mul(Neg(Div(Sqrt(Num(3)), Num(4))),
          Add(Sq(R(Scale - sdot)), Mul(Mul(Num(2), R(t - s)), R(sddot)))),
      Pow32(R(t - s)))

\* J = 2 * (t - s).^(3/2) / (sqrt(3) * pi)
JetThickness(t, s) ==
  Div(Mul(Num(2), Pow32(R(t - s))), Mul(Sqrt(Num(3)), R(Pi)))

\* the radicand d^2 - rhat.^2 of the outer solution
OuterRadicand(rhat, d) == Sub(Sq(d), Sq(rhat))

\* outer_p = @(rhat, t) (1/eps) * (4 * (2 * d^2 - rhat.^2) * ddot^2
\*     ./ (3 * pi * sqrt(d^2 - rhat.^2)) + 4 * d * dddot * sqrt(d^2 - rhat.^2) / (3 * pi))
outer_p(rhat, d, ddot, dddot, eps) ==
  LET root == Sqrt(OuterRadicand(rhat, d))
      a == Div(Mul(Mul(Num(4), Sub(Mul(Num(2), Sq(d)), Sq(rhat))), Sq(ddot)),
               Mul(Mul(Num(3), R(Pi)), root))
      b == Div(Mul(Mul(Mul(Num(4), d), dddot), root), Mul(Num(3), R(Pi)))
  IN  Mul(Div(Num(1), R(eps)), Add(a, b))

\* mutant of zero_fun: the constant term left out
zero_fun_NoConstant(sigma) ==
  Add(Add(sigma, Mul(Num(4), Sqrt(sigma))), Log(sigma))

\* zero_fun = @(sigma) sigma + 4 * sqrt(sigma) + log(sigma) + 1
zero_fun(sigma) ==
  Add(Add(Add(sigma, Mul(Num(4), Sqrt(sigma))), Log(sigma)), Num(1))

\* tilde_r = @(sigma, t) - (J/pi) * (sigma + 4 * sqrt(sigma) + log(sigma) + 1)
tilde_r(sigma, J) ==
  Mul(Neg(Div(J, R(Pi))),
      Add(Add(Add(sigma, Mul(Num(4), Sqrt(sigma))), Log(sigma)), Num(1)))

\* inner_r = @(sigma, t) eps * d + eps^3 * tilde_r(sigma, t)
inner_r(sigma, d, J, eps) ==
  Add(Mul(R(eps), d), Mul(Mul(R(eps), Sq(R(eps))), tilde_r(sigma, J)))

\* inner_p = @(sigma, t) (1 / eps^2) * 2 * ddot^2 * sqrt(sigma) ./ (1 + sqrt(sigma)).^2
inner_p(sigma, ddot, eps) ==
  Div(Mul(Mul(Mul(Div(Num(1), Sq(R(eps))), Num(2)), Sq(ddot)), Sqrt(sigma)),
      Sq(Add(Num(1), Sqrt(sigma))))

\* the radicand d / eps^2 - r / eps^3 of the overlap solution
OverlapRadicand(r, d, eps) ==
  Sub(Div(d, Sq(R(eps))), Div(r, Mul(R(eps), Sq(R(eps)))))

\* overlap = @(r, t) 2 * sqrt(2) * d^(3/2) * ddot^2
\*     ./ (3 * pi * eps^2 * sqrt(d / eps^2 - r / eps^3))
overlap(r, d, ddot, eps) ==
  Div(Mul(Mul(Mul(Num(2), Sqrt(Num(2))), Pow32(d)), Sq(ddot)),
      Mul(Mul(Mul(Num(3), R(Pi)), Sq(R(eps))), Sqrt(OverlapRadicand(r, d, eps))))

\* [inner_r(sigmas(1)), ..., inner_r(sigmas(n))]
InnerRAll(sig, d, J, eps) ==
  [i \in 1..Len(sig) |-> inner_r(R(sig[i]), d, J, eps)]

RECURSIVE FindFrom(_, _)
\* find(v > 0) from index i on: the indices whose value is > 0, ascending
FindFrom(v, i) ==
  IF i > Len(v) THEN <<>>
  ELSE IF Gt0(v[i]) THEN <<i>> \o FindFrom(v, i + 1)
  ELSE FindFrom(v, i + 1)

\* mutant of FindPositive: only the first index of each distinct value is kept
FindPositive_Unique(v) ==
  LET all == FindFrom(v, 1)
  IN  SelectSeq(all, LAMBDA i : \A j \in 1..(i - 1) : v[j] # v[i])

\* find(all_rs > 0)
FindPositive(v) == FindFrom(v, 1)

\* v(idxs)
IndexBy(v, idxs) == [j \in 1..Len(idxs) |-> v[idxs[j]]]

\* the composite pressure before the real part is taken, at one sample
CompositeAt(sigma, r, d, ddot, dddot, eps) ==
  Sub(Add(inner_p(R(sigma), ddot, eps), outer_p(Div(r, R(eps)), d, ddot, dddot, eps)),
      overlap(r, d, ddot, eps))

\* ps = real(inner_p(sigmas, t) + outer_p(rs/eps, t) - overlap(rs, t))
CompositeProfile(sig, radii, d, ddot, dddot, eps) ==
  [i \in 1..Len(sig) |-> Real(CompositeAt(sig[i], radii[i], d, ddot, dddot, eps))]

\* pmax = real(inner_p(sigma_max, t) + outer_p(inner_r(sigma_max, t)/eps, t)
\*     - overlap(inner_r(sigma_max, t)/eps, t))
MaxPressureAt(sigma, d, ddot, dddot, J, eps) ==
  LET r == inner_r(R(sigma), d, J, eps)
  IN  Real(Sub(Add(inner_p(R(sigma), ddot, eps),
                   outer_p(Div(r, R(eps)), d, ddot, dddot, eps)),
               overlap(Div(r, R(eps)), d, ddot, eps)))

(***************************************************************************)
(* fsolve(zero_fun, 0.0233): Newton-type iteration with a finite-          *)
(* difference derivative, stopped by the step tolerance or by the          *)
(* iteration limit                                                         *)
(***************************************************************************)
Seed == 233

\* finite-difference increment, 0.001
FinDiffStep == Scale \div 1000

\* the Newton step at x; 0 when the function value or the slope is unusable
NewtonStep(x) ==
  LET f0 == zero_fun(R(x))
      f1 == zero_fun(R(x + FinDiffStep))
      slope == IF IsRealV(f0) /\ IsRealV(f1) THEN DivI(f1.re - f0.re, FinDiffStep) ELSE 0
  IN  IF slope = 0 THEN 0 ELSE -DivI(f0.re, slope)

\* the step is below the step tolerance at a point where the function is real
Converged(x) == IsRealV(zero_fun(R(x))) /\ NewtonStep(x) = 0

(***************************************************************************)
(* Inputs                                                                  *)
(***************************************************************************)
MaxLen == 2

MaxIter == 8

SigmaVals == {233, 10000, 50000}

TVals == {2500, 10000}

SVals == {0, 2500, 5000}

SdotVals == {0, 5000}

SddotVals == {0, -10000}

EpsVals == {5000, 10000, 20000}

RECURSIVE SeqsUpTo(_, _)
\* the sequences over S of length at most n
SeqsUpTo(S, n) ==
  IF n = 0 THEN {<<>>}
  ELSE LET shorter == SeqsUpTo(S, n - 1)
       IN  shorter \cup {Append(q, e) : q \in shorter, e \in S}

VARIABLES
  sigmas_arg, t, s, sdot, sddot, eps,   \* the arguments of the call
  pc,                                   \* position in wagner_pressure
  d, ddot, dddot, J,                    \* turnover point and jet thickness
  all_rs, pos_idxs, rs, sigmas, ps,     \* composite solution
  xk, iter, exitflag, sigma_max,         \* fsolve
  pmax,                                 \* maximum pressure
  err,                                  \* the error raised by the call, if any
  \* force_comparison
  fpc,                                  \* position in the script
  script_eps, impact_time, t_max,       \* parameters
  wagner_t, script_s, script_sdot, script_sddot,   \* the time grid and the plate motion
  k, sample,                            \* composite_force: samples taken so far, the last one
  \* droplet_impact.c
  dpc,                                  \* "running" until the end event, then "ended"
  sim_t,                                \* the simulation time t of the last event
  START_OUTPUT_TIME, END_OUTPUT_TIME, MAX_TIME,
  INTERFACE_OUTPUT_TIMESTEP, PLATE_OUTPUT_TIMESTEP, GFS_OUTPUT_TIMESTEP,
  next_interface, next_plate, next_gfs, \* the next time of each t += ... event
  gfs_output_no, plate_output_no, interface_output_no,
  interface_files, plate_files, gfs_files   \* the files written, in order: index and time

wvars == <<sigmas_arg, t, s, sdot, sddot, eps, pc, d, ddot, dddot, J,
           all_rs, pos_idxs, rs, sigmas, ps, xk, iter, exitflag, sigma_max, pmax, err>>

fvars == <<fpc, script_eps, impact_time, t_max, wagner_t, script_s, script_sdot,
           script_sddot, k, sample>>

dparams == <<START_OUTPUT_TIME, END_OUTPUT_TIME, MAX_TIME, INTERFACE_OUTPUT_TIMESTEP,
             PLATE_OUTPUT_TIMESTEP, GFS_OUTPUT_TIMESTEP>>

dvars == <<dpc, sim_t, dparams, next_interface, next_plate, next_gfs,
           gfs_output_no, plate_output_no, interface_output_no,
           interface_files, plate_files, gfs_files>>

vars == <<wvars, fvars, dvars>>

args == <<sigmas_arg, t, s, sdot, sddot, eps>>

\* the function is entered with its arguments bound and no local defined
WagnerInit ==
  /\ sigmas_arg \in SeqsUpTo(SigmaVals, MaxLen)
  /\ t \in TVals
  /\ s \in SVals
  /\ sdot \in SdotVals
  /\ sddot \in SddotVals
  /\ eps \in EpsVals
  /\ pc = "turnover"
  /\ sigmas = sigmas_arg
  /\ d = Undef /\ ddot = Undef /\ dddot = Undef /\ J = Undef
  /\ all_rs = <<>> /\ pos_idxs = <<>> /\ rs = <<>> /\ ps = <<>>
  /\ xk = Seed /\ iter = 0 /\ exitflag = 0 /\ sigma_max = 0
  /\ pmax = Undef
  /\ err = "none"

\* lines 3-10: turnover point and jet thickness
Turnover ==
  /\ pc = "turnover"
  /\ d' = TurnoverD(t, s)
  /\ ddot' = TurnoverDdot(t, s, sdot)
  /\ dddot' = TurnoverDddot(t, s, sdot, sddot)
  /\ J' = JetThickness(t, s)
  /\ pc' = "composite"
  /\ UNCHANGED <<args, all_rs, pos_idxs, rs, sigmas, ps, xk, iter, exitflag,
                 sigma_max, pmax, err>>
  /\ UNCHANGED fvars
  /\ UNCHANGED dvars

\* lines 26-31: composite solution
Composite ==
  /\ pc = "composite"
  /\ LET ar  == InnerRAll(sigmas, d, J, eps)
         idx == FindPositive(ar)
         r   == IndexBy(ar, idx)
         sg  == IndexBy(sigmas, idx)
     IN  /\ all_rs' = ar
         /\ pos_idxs' = idx
         /\ rs' = r
         /\ sigmas' = sg
         /\ ps' = CompositeProfile(sg, r, d, ddot, dddot, eps)
  /\ pc' = "fsolve"
  /\ UNCHANGED <<args, d, ddot, dddot, J, xk, iter, exitflag, sigma_max, pmax, err>>
  /\ UNCHANGED fvars
  /\ UNCHANGED dvars

\* line 38: one iteration of fsolve
FsolveStep ==
  /\ pc = "fsolve"
  /\ ~Converged(xk)
  /\ iter < MaxIter
  /\ xk' = xk + NewtonStep(xk)
  /\ iter' = iter + 1
  /\ UNCHANGED <<args, pc, d, ddot, dddot, J, all_rs, pos_idxs, rs, sigmas, ps,
                 exitflag, sigma_max, pmax, err>>
  /\ UNCHANGED fvars
  /\ UNCHANGED dvars

\* line 38: fsolve returns its last iterate; the exit flag is not an output
\* the call asks for
FsolveReturn ==
  /\ pc = "fsolve"
  /\ Converged(xk) \/ iter >= MaxIter
  /\ sigma_max' = xk
  /\ exitflag' = IF Converged(xk) THEN 1 ELSE 0
  /\ pc' = "pmax"
  /\ UNCHANGED <<args, d, ddot, dddot, J, all_rs, pos_idxs, rs, sigmas, ps,
                 xk, iter, pmax, err>>
  /\ UNCHANGED fvars
  /\ UNCHANGED dvars

\* lines 39-40: maximum pressure, then the function returns
MaxPressure ==
  /\ pc = "pmax"
  /\ pmax' = MaxPressureAt(sigma_max, d, ddot, dddot, J, eps)
  /\ pc' = "done"
  /\ UNCHANGED <<args, d, ddot, dddot, J, all_rs, pos_idxs, rs, sigmas, ps,
                 xk, iter, exitflag, sigma_max, err>>
  /\ UNCHANGED fvars
  /\ UNCHANGED dvars

(***************************************************************************)
(* force_comparison.m: the stationary-plate Wagner baseline                *)
(* Times are raw integers in units of 1e-7.                                *)
(***************************************************************************)
TimeScale == 10 ^ 7

\* initial_drop_heights = 0.125
InitialDropHeights == 1250000

\* t_max = 0.8
TMax == 8000000

\* the first grid time, 1e-7
GridStart == 1

\* the number of grid points, 1e3
GridPoints == 1000

\* linspace(a, b, n)
Linspace(a, b, n) ==
  [i \in 1..n |->
     IF i = n THEN b
     ELSE a + (i - 1) * ((b - a) \div (n - 1)) + ((i - 1) * ((b - a) % (n - 1))) \div (n - 1)]

\* mutant of GridTimes: the grid started at the impact instant itself
GridTimes_FromZero(tmax, impact) == Linspace(0, tmax - impact, GridPoints)

\* wagner_t = linspace(1e-7, t_max - impact_time, 1e3)
GridTimes(tmax, impact) == Linspace(GridStart, tmax - impact, GridPoints)

\* zeros(size(v))
Zeros(v) == [i \in 1..Len(v) |-> 0]

NoSample == [t |-> 0, s |-> 0, sdot |-> 0, sddot |-> 0, eps |-> 0]

ForceIdle ==
  /\ fpc = "idle"
  /\ script_eps = 0 /\ impact_time = 0 /\ t_max = 0
  /\ wagner_t = <<>> /\ script_s = <<>> /\ script_sdot = <<>> /\ script_sddot = <<>>
  /\ k = 0 /\ sample = NoSample

WagnerIdle ==
  /\ sigmas_arg = <<>> /\ t = 0 /\ s = 0 /\ sdot = 0 /\ sddot = 0 /\ eps = 0
  /\ pc = "idle"
  /\ sigmas = <<>>
  /\ d = Undef /\ ddot = Undef /\ dddot = Undef /\ J = Undef
  /\ all_rs = <<>> /\ pos_idxs = <<>> /\ rs = <<>> /\ ps = <<>>
  /\ xk = Seed /\ iter = 0 /\ exitflag = 0 /\ sigma_max = 0
  /\ pmax = Undef
  /\ err = "none"

ForceInit ==
  /\ fpc = "params"
  /\ script_eps = 0 /\ impact_time = 0 /\ t_max = 0
  /\ wagner_t = <<>> /\ script_s = <<>> /\ script_sdot = <<>> /\ script_sddot = <<>>
  /\ k = 0 /\ sample = NoSample

\* lines 42-56: eps = 1, impact_time = initial_drop_heights, t_max = 0.8
ForceParams ==
  /\ fpc = "params"
  /\ script_eps' = Scale
  /\ impact_time' = InitialDropHeights
  /\ t_max' = TMax
  /\ fpc' = "linspace"
  /\ UNCHANGED <<wagner_t, script_s, script_sdot, script_sddot, k, sample>>
  /\ UNCHANGED wvars
  /\ UNCHANGED dvars

\* line 60
ForceLinspace ==
  /\ fpc = "linspace"
  /\ wagner_t' = GridTimes(t_max, impact_time)
  /\ fpc' = "s"
  /\ UNCHANGED <<script_eps, impact_time, t_max, script_s, script_sdot, script_sddot,
                 k, sample>>
  /\ UNCHANGED wvars
  /\ UNCHANGED dvars

\* line 61
ForceZerosS ==
  /\ fpc = "s"
  /\ script_s' = Zeros(wagner_t)
  /\ fpc' = "sdot"
  /\ UNCHANGED <<script_eps, impact_time, t_max, wagner_t, script_sdot, script_sddot,
                 k, sample>>
  /\ UNCHANGED wvars
  /\ UNCHANGED dvars

\* line 62
ForceZerosSdot ==
  /\ fpc = "sdot"
  /\ script_sdot' = Zeros(wagner_t)
  /\ fpc' = "sddot"
  /\ UNCHANGED <<script_eps, impact_time, t_max, wagner_t, script_s, script_sddot,
                 k, sample>>
  /\ UNCHANGED wvars
  /\ UNCHANGED dvars

\* line 63
ForceZerosSddot ==
  /\ fpc = "sddot"
  /\ script_sddot' = Zeros(wagner_t)
  /\ fpc' = "call"
  /\ UNCHANGED <<script_eps, impact_time, t_max, wagner_t, script_s, script_sdot,
                 k, sample>>
  /\ UNCHANGED wvars
  /\ UNCHANGED dvars

\* line 66: composite_force(wagner_t, s, sdot, sddot, eps) is entered
ForceCall ==
  /\ fpc = "call"
  /\ fpc' = "composite_force"
  /\ k' = 0
  /\ UNCHANGED <<script_eps, impact_time, t_max, wagner_t, script_s, script_sdot,
                 script_sddot, sample>>
  /\ UNCHANGED wvars
  /\ UNCHANGED dvars

\* composite_force takes the next time sample of the grid it was handed
CompositeForceSample ==
  /\ fpc = "composite_force"
  /\ k < Len(wagner_t)
  /\ k' = k + 1
  /\ sample' = [t |-> wagner_t[k + 1], s |-> script_s[k + 1], sdot |-> script_sdot[k + 1],
                sddot |-> script_sddot[k + 1], eps |-> script_eps]
  /\ UNCHANGED <<fpc, script_eps, impact_time, t_max, wagner_t, script_s, script_sdot,
                 script_sddot>>
  /\ UNCHANGED wvars
  /\ UNCHANGED dvars

\* composite_force returns the force history to the script
CompositeForceReturn ==
  /\ fpc = "composite_force"
  /\ k = Len(wagner_t)
  /\ fpc' = "plot"
  /\ UNCHANGED <<script_eps, impact_time, t_max, wagner_t, script_s, script_sdot,
                 script_sddot, k, sample>>
  /\ UNCHANGED wvars
  /\ UNCHANGED dvars

(***************************************************************************)
(* droplet_impact.c: the output events and their file counters             *)
(* Times are whole ticks; the parameters that parameters.h leaves to the   *)
(* run are drawn from small sets.                                          *)
(***************************************************************************)
MaxTime == 6

StartTimes == {0, 2}

EndTimes == {3, MaxTime + 1}

Timesteps == {1, 2, 3}

\* (t >= START_OUTPUT_TIME) && (t <= END_OUTPUT_TIME)
InOutputWindow(tt) == tt >= START_OUTPUT_TIME /\ tt <= END_OUTPUT_TIME

\* the time of the earliest pending t += ... event
NextEventTime ==
  LET m == IF next_interface <= next_plate THEN next_interface ELSE next_plate
  IN  IF m <= next_gfs THEN m ELSE next_gfs

\* lines 27-30: the counters start at 1; no event has run and no file exists
DropletInit ==
  /\ dpc = "running"
  /\ sim_t = 0
  /\ START_OUTPUT_TIME \in StartTimes
  /\ END_OUTPUT_TIME \in EndTimes
  /\ MAX_TIME = MaxTime
  /\ INTERFACE_OUTPUT_TIMESTEP \in Timesteps
  /\ PLATE_OUTPUT_TIMESTEP \in Timesteps
  /\ GFS_OUTPUT_TIMESTEP \in Timesteps
  /\ next_interface = 0 /\ next_plate = 0 /\ next_gfs = 0
  /\ gfs_output_no = 1 /\ plate_output_no = 1 /\ interface_output_no = 1
  /\ interface_files = <<>> /\ plate_files = <<>> /\ gfs_files = <<>>

DropletIdle ==
  /\ dpc = "idle"
  /\ sim_t = 0
  /\ START_OUTPUT_TIME = 0 /\ END_OUTPUT_TIME = 0 /\ MAX_TIME = 0
  /\ INTERFACE_OUTPUT_TIMESTEP = 0 /\ PLATE_OUTPUT_TIMESTEP = 0 /\ GFS_OUTPUT_TIMESTEP = 0
  /\ next_interface = 0 /\ next_plate = 0 /\ next_gfs = 0
  /\ gfs_output_no = 1 /\ plate_output_no = 1 /\ interface_output_no = 1
  /\ interface_files = <<>> /\ plate_files = <<>> /\ gfs_files = <<>>

\* mutant of OutputInterface: interface_output_no++ placed after the if block
OutputInterface_AlwaysIncrement ==
  /\ dpc = "running"
  /\ next_interface <= MAX_TIME
  /\ next_interface = NextEventTime
  /\ sim_t' = next_interface
  /\ interface_files' =
       IF InOutputWindow(next_interface)
       THEN Append(interface_files, [no |-> interface_output_no, t |-> next_interface])
       ELSE interface_files
  /\ interface_output_no' = interface_output_no + 1
  /\ next_interface' = next_interface + INTERFACE_OUTPUT_TIMESTEP
  /\ UNCHANGED <<dpc, dparams, next_plate, next_gfs, gfs_output_no, plate_output_no,
                 plate_files, gfs_files>>
  /\ UNCHANGED <<wvars, fvars>>

\* lines 134-148: event output_interface (t += INTERFACE_OUTPUT_TIMESTEP)
OutputInterface ==
  /\ dpc = "running"
  /\ next_interface <= MAX_TIME
  /\ next_interface = NextEventTime
  /\ sim_t' = next_interface
  /\ IF InOutputWindow(next_interface)
     THEN /\ interface_files' =
               Append(interface_files, [no |-> interface_output_no, t |-> next_interface])
          /\ interface_output_no' = interface_output_no + 1
     ELSE UNCHANGED <<interface_files, interface_output_no>>
  /\ next_interface' = next_interface + INTERFACE_OUTPUT_TIMESTEP
  /\ UNCHANGED <<dpc, dparams, next_plate, next_gfs, gfs_output_no, plate_output_no,
                 plate_files, gfs_files>>
  /\ UNCHANGED <<wvars, fvars>>

\* lines 151-173: event output_values_along_plate (t += PLATE_OUTPUT_TIMESTEP)
OutputValuesAlongPlate ==
  /\ dpc = "running"
  /\ next_plate <= MAX_TIME
  /\ next_plate = NextEventTime
  /\ sim_t' = next_plate
  /\ IF InOutputWindow(next_plate)
     THEN /\ plate_files' = Append(plate_files, [no |-> plate_output_no, t |-> next_plate])
          /\ plate_output_no' = plate_output_no + 1
     ELSE UNCHANGED <<plate_files, plate_output_no>>
  /\ next_plate' = next_plate + PLATE_OUTPUT_TIMESTEP
  /\ UNCHANGED <<dpc, dparams, next_interface, next_gfs, gfs_output_no,
                 interface_output_no, interface_files, gfs_files>>
  /\ UNCHANGED <<wvars, fvars>>

\* lines 176-185: event gfs_output (t += GFS_OUTPUT_TIMESTEP)
GfsOutput ==
  /\ dpc = "running"
  /\ next_gfs <= MAX_TIME
  /\ next_gfs = NextEventTime
  /\ sim_t' = next_gfs
  /\ IF InOutputWindow(next_gfs)
     THEN /\ gfs_files' = Append(gfs_files, [no |-> gfs_output_no, t |-> next_gfs])
          /\ gfs_output_no' = gfs_output_no + 1
     ELSE UNCHANGED <<gfs_files, gfs_output_no>>
  /\ next_gfs' = next_gfs + GFS_OUTPUT_TIMESTEP
  /\ UNCHANGED <<dpc, dparams, next_interface, next_plate, plate_output_no,
                 interface_output_no, interface_files, plate_files>>
  /\ UNCHANGED <<wvars, fvars>>

\* lines 220-223: event end (t = MAX_TIME), after the last output event
EndEvent ==
  /\ dpc = "running"
  /\ NextEventTime > MAX_TIME
  /\ dpc' = "ended"
  /\ sim_t' = MAX_TIME
  /\ UNCHANGED <<dparams, next_interface, next_plate, next_gfs, gfs_output_no,
                 plate_output_no, interface_output_no, interface_files, plate_files,
                 gfs_files>>
  /\ UNCHANGED <<wvars, fvars>>

Init == WagnerInit /\ ForceIdle /\ DropletIdle

Next == Turnover \/ Composite \/ FsolveStep \/ FsolveReturn \/ MaxPressure

Spec == Init /\ [][Next]_vars

InitForce == WagnerIdle /\ ForceInit /\ DropletIdle

NextForce ==
  \/ ForceParams \/ ForceLinspace \/ ForceZerosS \/ ForceZerosSdot \/ ForceZerosSddot
  \/ ForceCall \/ CompositeForceSample \/ CompositeForceReturn

SpecForce == InitForce /\ [][NextForce]_vars

InitDroplet == WagnerIdle /\ ForceIdle /\ DropletInit

NextDroplet == OutputInterface \/ OutputValuesAlongPlate \/ GfsOutput \/ EndEvent

SpecDroplet == InitDroplet /\ [][NextDroplet]_vars

(***************************************************************************)
(* Properties                                                              *)
(***************************************************************************)
\* a value that is a strictly positive real number (or +Inf)
IsPositiveReal(v) == (v.k = "fin" /\ v.im = 0 /\ v.re > 0) \/ v.k = "pinf"

\* a value that is a finite real number
IsFiniteReal(v) == v.k = "fin" /\ v.im = 0

\* the composite solution has been computed
ProfileDone == pc \in {"fsolve", "pmax", "done"}

\* the turnover point has been computed
TurnoverDone == pc \in {"composite", "fsolve", "pmax", "done"}

\* nominal inputs: t - s > 0 and eps > 0
Nominal == t - s > 0 /\ eps > 0

\* agreement up to the fixed-point tolerance, 5e-4
Tol == Scale \div 2000

Near(a, b) == Abs(a - b) <= Tol

C2_PeakIsCompositeAtPeakRadius ==
  pc = "done" =>
    pmax = Real(CompositeAt(sigma_max, inner_r(R(sigma_max), d, J, eps),
                            d, ddot, dddot, eps))

\* C3: with t - s <= 0 the evaluation fails with a DomainError and no
\* complex, infinite or NaN turnover value is produced.
C3_DomainErrorRaised ==
  (t - s <= 0 /\ TurnoverDone) =>
    /\ err = "DomainError"
    /\ \A v \in {d, ddot, dddot, J} : v = Undef \/ IsFiniteReal(v)

\* C4: under nominal inputs the outer and overlap solutions are evaluated only
\* at retained samples whose radicands d^2 - rhat^2 and d/eps^2 - r/eps^3
\* are nonnegative.
C4_RadicandsNonnegative ==
  (Nominal /\ ProfileDone) =>
    \A i \in 1..Len(rs) :
      /\ OuterRadicand(Div(rs[i], R(eps)), d).re >= 0
      /\ OverlapRadicand(rs[i], d, eps).re >= 0

\* C5: under nominal inputs every composite pressure of a retained sample,
\* and the peak value, is finite and real before the real part is taken.
C5_CompositeFiniteReal ==
  Nominal =>
    /\ ProfileDone =>
         \A i \in 1..Len(rs) :
           IsFiniteReal(CompositeAt(sigmas[i], rs[i], d, ddot, dddot, eps))
    /\ pc = "done" => IsFiniteReal(pmax)

RECURSIVE Bisect(_, _)
\* with zero_fun(lo) < 0 <= zero_fun(hi): the grid point next to the sign change
Bisect(lo, hi) ==
  IF hi - lo <= 1 THEN hi
  ELSE LET mid == (lo + hi) \div 2
       IN  IF zero_fun(R(mid)).re >= 0 THEN Bisect(lo, mid) ELSE Bisect(mid, hi)

\* the zero of sigma + 4 sqrt(sigma) + ln(sigma) + 1 in (0, 1], by bisection
SigmaRoot == Bisect(1, Scale)

\* 0.09645
RootApprox == (9645 * Scale) \div 100000

\* C7 (as stated): sigma_max is the zero of zero_fun and lies within 1e-6 of
\* the seed 0.0233 (here: within one unit of the arithmetic, 1e-4).
C7_RootAtSeed ==
  pc \in {"pmax", "done"} =>
    /\ Abs(sigma_max - SigmaRoot) <= 1
    /\ Abs(sigma_max - Seed) <= 1

\* C7 (amended): the root-find converges, sigma_max is the zero of zero_fun
\* (zero_fun changes sign within one unit of it), it lies within 1e-3 of
\* 0.09645, more than 0.07 away from the seed, and it is the same value for
\* every (t, s, sdot, sddot, eps).
C7_RootLocated ==
  pc \in {"pmax", "done"} =>
    /\ exitflag = 1
    /\ zero_fun(R(sigma_max - 1)).re < 0
    /\ zero_fun(R(sigma_max + 1)).re > 0
    /\ Abs(sigma_max - SigmaRoot) <= 1
    /\ Abs(sigma_max - RootApprox) <= Scale \div 1000
    /\ Abs(sigma_max - Seed) > (7 * Scale) \div 100

\* a call with a moving plate has located sigma_max
C7_Witness ==
  pc = "done" /\ exitflag = 1 /\ iter > 0 /\ t - s > 0 /\ sdot # 0 /\ sddot # 0

\* C9: every time sample handed to composite_force is a stationary-plate
\* TimeSample: s = sdot = sddot = 0, the arrays have the length of the grid,
\* every grid time is > 0 with t - s > 0, and the grid runs from 1e-7 to
\* t_max - impact_time.
C9_StationaryPlateSamples ==
  /\ fpc \in {"composite_force", "plot"} =>
       /\ Len(wagner_t) = GridPoints
       /\ Len(script_s) = Len(wagner_t)
       /\ Len(script_sdot) = Len(wagner_t)
       /\ Len(script_sddot) = Len(wagner_t)
       /\ wagner_t[1] = GridStart
       /\ wagner_t[Len(wagner_t)] = t_max - impact_time
       /\ \A i \in 1..Len(wagner_t) :
            /\ script_s[i] = 0 /\ script_sdot[i] = 0 /\ script_sddot[i] = 0
            /\ wagner_t[i] > 0
            /\ wagner_t[i] - script_s[i] > 0
            /\ wagner_t[i] <= t_max - impact_time
  /\ (fpc \in {"composite_force", "plot"} /\ k >= 1) =>
       /\ sample.s = 0 /\ sample.sdot = 0 /\ sample.sddot = 0
       /\ sample.t > 0
       /\ sample.t - sample.s > 0
       /\ sample.t = wagner_t[k]

\* composite_force has taken the last sample of the grid
C9_Witness ==
  fpc = "composite_force" /\ k = GridPoints /\ sample.t = TMax - InitialDropHeights

\* C10: for t - s > 0 the turnover state satisfies d^2 = 3 (t - s),
\* ddot sqrt(t - s) = (sqrt(3)/2)(1 - sdot),
\* dddot (t - s)^(3/2) = -(sqrt(3)/4)[(1 - sdot)^2 + 2 (t - s) sddot],
\* and d ddot = (3/2)(1 - sdot), up to the tolerance of the arithmetic.
C10_TurnoverClosedForm ==
  (t - s > 0 /\ TurnoverDone) =>
    /\ IsFiniteReal(d) /\ IsFiniteReal(ddot) /\ IsFiniteReal(dddot)
    /\ d.re > 0
    /\ Near(MulI(d.re, d.re), 3 * (t - s))
    /\ Near(2 * MulI(ddot.re, SqrtI(t - s)), MulI(SqrtI(3 * Scale), Scale - sdot))
    /\ Near(4 * MulI(dddot.re, MulI(t - s, SqrtI(t - s))),
            -MulI(SqrtI(3 * Scale),
                  MulI(Scale - sdot, Scale - sdot) + 2 * MulI(t - s, sddot)))
    /\ Near(MulI(d.re, ddot.re), (3 * (Scale - sdot)) \div 2)

\* the turnover state of a decelerating, moving plate has been computed
C10_Witness ==
  TurnoverDone /\ t - s > 0 /\ sdot # 0 /\ sddot # 0 /\ d # Undef

\* C11: after the r > 0 filter the radii and sigmas stay paired and ordered:
\* the retained sigmas are the input sigmas with positive inner_r, in input
\* order and with duplicates kept, rs(i) is inner_r of the i-th retained sigma
\* and ps(i) is computed from that sigma and that radius.
C11_PairedOrderedSubsequence ==
  ProfileDone =>
    LET Keep(sg) == IsPositiveReal(inner_r(R(sg), d, J, eps))
    IN  /\ sigmas = SelectSeq(sigmas_arg, Keep)
        /\ Len(rs) = Len(sigmas)
        /\ Len(ps) = Len(sigmas)
        /\ Len(pos_idxs) = Len(sigmas)
        /\ \A i \in 1..Len(pos_idxs) :
             /\ pos_idxs[i] \in 1..Len(sigmas_arg)
             /\ sigmas[i] = sigmas_arg[pos_idxs[i]]
             /\ \A j \in 1..(i - 1) : pos_idxs[j] < pos_idxs[i]
        /\ \A i \in 1..Len(sigmas) :
             /\ rs[i] = inner_r(R(sigmas[i]), d, J, eps)
             /\ ps[i] = Real(Add(Add(inner_p(R(sigmas[i]), ddot, eps),
                                     outer_p(Div(rs[i], R(eps)), d, ddot, dddot, eps)),
                                 Neg(overlap(rs[i], d, ddot, eps))))

\* a call has returned a profile whose first input sample was discarded, so
\* that the first returned pair comes from the second input sigma
C11_Witness ==
  /\ pc = "done"
  /\ Len(sigmas_arg) = 2
  /\ pos_idxs = <<2>>
  /\ Len(rs) = 1
  /\ sigmas = <<sigmas_arg[2]>>

\* the files of one kind carry the indices 1, 2, 3, ... in the order written,
\* each written at an event time inside the output window, and the counter
\* is 1 plus their number
CounterMatchesFiles(no, files) ==
  /\ no = 1 + Len(files)
  /\ \A i \in 1..Len(files) : files[i].no = i /\ InOutputWindow(files[i].t)
  /\ \A i, j \in 1..Len(files) : i # j => files[i].no # files[j].no

\* one event step: the counter goes up by exactly one, with exactly one file
\* written under the old counter, when the event fires inside the window, and
\* is left unchanged when it fires outside
EventStepsOwnCounter(next_old, next_new, no_old, no_new, files_old, files_new, tnow) ==
  IF next_new # next_old
  THEN IF InOutputWindow(tnow)
       THEN /\ no_new = no_old + 1
            /\ files_new = Append(files_old, [no |-> no_old, t |-> tnow])
       ELSE no_new = no_old /\ files_new = files_old
  ELSE no_new = no_old /\ files_new = files_old

=============================================================================
